---- MODULE Spec2Model ----
(***************************************************************************)
(* Model of app_api_server/internal/database/driver.go: the database       *)
(* configuration loader, its validator, the connection string builder and  *)
(* the PostgreSQLDriver connection manager.                                *)
(*                                                                         *)
(* Go strings are TLA+ strings, except the raw DB_PORT value, which is a   *)
(* sequence of one-character strings so that strconv.Atoi can be modelled  *)
(* character by character.  A *sql.DB is an index into the sequence        *)
(* `handles` of every pool sql.Open has returned; NilDB is the nil         *)
(* pointer.                                                                *)
(***************************************************************************)
EXTENDS Integers, Sequences, FiniteSets, TLC

\* ------------------------------------------------------------------ bounds
\* Number of pools sql.Open may hand out in one behaviour.
MaxHandles == 2
MaxCalls == 2
\* Number of Close calls the manager may issue on one pool.
MaxCloses == 2

\* ------------------------------------------------------- program constants
MaxOpenConns == 25
MaxIdleConns == 5
ConnMaxLifetimeMinutes == 5
MaxPort == 65535

\* The nil *sql.DB and the nil *DatabaseConfig.
NilDB == 0
NilConfig == [nil |-> TRUE]
NoError == "nil"

\* ----------------------------------------------------------- DatabaseConfig
DatabaseConfig(host, port, user, password, database, sslMode) ==
    [Host |-> host, Port |-> port, User |-> user, Password |-> password,
     Database |-> database, SSLMode |-> sslMode]

\* Inputs a caller may pass to NewPostgreSQLDriverWithConfig.
Hosts == {"", "localhost"}
Ports == {-1, 0, 1, 5432, 65535, 65536}
Users == {"", "testuser"}
Passwords == {"", "testpass"}
Databases == {"", "testdb"}
SSLModes == {"", "disable", "require", "verify-ca", "verify-full", "prefer"}

Configs ==
    {DatabaseConfig(h, p, u, pw, d, s) :
        h \in Hosts, p \in Ports, u \in Users, pw \in Passwords,
        d \in Databases, s \in SSLModes}

\* ------------------------------------------------- validateDatabaseConfig
validSSLModes == <<"disable", "require", "verify-ca", "verify-full">>

\* validateDatabaseConfig with the lower port bound off by one (Port < 0).
validateDatabaseConfigPortFrom0(config) ==
    IF config.Host = "" THEN "host cannot be empty"
    ELSE IF config.Port < 0 \/ config.Port > MaxPort
        THEN "port must be between 1 and 65535"
    ELSE IF config.User = "" THEN "user cannot be empty"
    ELSE IF config.Password = "" THEN "password cannot be empty"
    ELSE IF config.Database = "" THEN "database name cannot be empty"
    ELSE IF ~(\E i \in 1..Len(validSSLModes) : config.SSLMode = validSSLModes[i])
        THEN "invalid SSL mode"
    ELSE NoError

\* The error validateDatabaseConfig returns, NoError for nil; the checks run
\* in the order of the source and the first failing one decides the error.
validateDatabaseConfig(config) ==
    IF config.Host = "" THEN "host cannot be empty"
    ELSE IF config.Port <= 0 \/ config.Port > MaxPort
        THEN "port must be between 1 and 65535"
    ELSE IF config.User = "" THEN "user cannot be empty"
    ELSE IF config.Password = "" THEN "password cannot be empty"
    ELSE IF config.Database = "" THEN "database name cannot be empty"
    ELSE IF ~(\E i \in 1..Len(validSSLModes) : config.SSLMode = validSSLModes[i])
        THEN "invalid SSL mode"
    ELSE NoError

\* ------------------------------------------------------ process environment
\* An environment maps each variable name to [set, val]; the raw DB_PORT
\* value is a sequence of characters, every other value a string.
EnvNames == {"DB_HOST", "DB_PORT", "DB_USER", "DB_PASSWORD", "DB_NAME", "DB_SSL_MODE"}

EmptyOf(key) == IF key = "DB_PORT" THEN <<>> ELSE ""

EnvUnset(key) == [set |-> FALSE, val |-> EmptyOf(key)]

EnvSet(v) == [set |-> TRUE, val |-> v]

\* os.Getenv: the value, or the empty string when the variable is not set.
Getenv(env, key) == IF env[key].set THEN env[key].val ELSE EmptyOf(key)

\* godotenv.Load: with no .env file it returns an error and changes nothing;
\* otherwise every key of the file that the process does not have set is set.
\* A file is [found, vars], vars being the assignments it holds.
NoVars == [k \in EnvNames |-> EnvUnset(k)]

NoFile == [found |-> FALSE, vars |-> NoVars]

GodotenvLoad(env, file) ==
    IF ~file.found THEN env
    ELSE [k \in EnvNames |->
            IF ~env[k].set /\ file.vars[k].set THEN file.vars[k] ELSE env[k]]

\* strconv.Atoi on a sequence of characters: an optional sign, then one or
\* more decimal digits; anything else is a syntax error, and a number that
\* does not fit an int is a range error.
DigitChars == <<"0", "1", "2", "3", "4", "5", "6", "7", "8", "9">>

IsDigit(c) == \E i \in 1..Len(DigitChars) : DigitChars[i] = c

DigitVal(c) == (CHOOSE i \in 1..Len(DigitChars) : DigitChars[i] = c) - 1

RECURSIVE ParseDigits(_, _)
ParseDigits(s, n) ==
    IF s = <<>> THEN [ok |-> TRUE, n |-> n]
    ELSE IF ~IsDigit(Head(s)) THEN [ok |-> FALSE, n |-> 0]
    ELSE ParseDigits(Tail(s), n * 10 + DigitVal(Head(s)))

\* The decimal digits of the largest int (64 bits) and of the magnitude of
\* the smallest one.
MaxIntDigits ==
    <<"9", "2", "2", "3", "3", "7", "2", "0", "3", "6", "8", "5", "4", "7", "7",
      "5", "8", "0", "7">>
MinIntDigits ==
    <<"9", "2", "2", "3", "3", "7", "2", "0", "3", "6", "8", "5", "4", "7", "7",
      "5", "8", "0", "8">>

RECURSIVE StripZeros(_)
StripZeros(s) == IF s # <<>> /\ Head(s) = "0" THEN StripZeros(Tail(s)) ELSE s

\* a > b for two digit sequences of the same length.
RECURSIVE DigitsGreater(_, _)
DigitsGreater(a, b) ==
    IF a = <<>> THEN FALSE
    ELSE IF Head(a) # Head(b) THEN DigitVal(Head(a)) > DigitVal(Head(b))
    ELSE DigitsGreater(Tail(a), Tail(b))

\* Whether the number with these digits does not fit an int: a range error.
OutOfRange(digits, negative) ==
    LET d == StripZeros(digits)
        limit == IF negative THEN MinIntDigits ELSE MaxIntDigits
    IN  Len(d) > Len(limit) \/ (Len(d) = Len(limit) /\ DigitsGreater(d, limit))

Atoi(s) ==
    IF s = <<>> THEN [ok |-> FALSE, n |-> 0]
    ELSE LET signed == Head(s) = "-" \/ Head(s) = "+"
             body == IF signed THEN Tail(s) ELSE s
         IN  IF body = <<>> \/ \E i \in 1..Len(body) : ~IsDigit(body[i])
                 THEN [ok |-> FALSE, n |-> 0]
             ELSE IF OutOfRange(body, Head(s) = "-") THEN [ok |-> FALSE, n |-> 0]
             ELSE [ok |-> TRUE,
                   n |-> IF Head(s) = "-" THEN 0 - ParseDigits(body, 0).n
                         ELSE ParseDigits(body, 0).n]

DefaultHost == "localhost"
DefaultPortStr == <<"5", "4", "3", "2">>
DefaultSSLMode == "require"

\* LoadDatabaseConfig without the check of DB_PASSWORD.
LoadDatabaseConfigNoPasswordCheck(penv, file) ==
    LET env == GodotenvLoad(penv, file)
        host == IF Getenv(env, "DB_HOST") = "" THEN DefaultHost
                ELSE Getenv(env, "DB_HOST")
        portStr == IF Getenv(env, "DB_PORT") = <<>> THEN DefaultPortStr
                   ELSE Getenv(env, "DB_PORT")
        port == Atoi(portStr)
        user == Getenv(env, "DB_USER")
        password == Getenv(env, "DB_PASSWORD")
        database == Getenv(env, "DB_NAME")
        sslMode == IF Getenv(env, "DB_SSL_MODE") = "" THEN DefaultSSLMode
                   ELSE Getenv(env, "DB_SSL_MODE")
    IN  IF ~port.ok THEN [config |-> NilConfig, err |-> "invalid port number"]
        ELSE IF user = ""
            THEN [config |-> NilConfig, err |-> "DB_USER environment variable is required"]
        ELSE IF database = ""
            THEN [config |-> NilConfig, err |-> "DB_NAME environment variable is required"]
        ELSE [config |-> DatabaseConfig(host, port.n, user, password, database, sslMode),
              err |-> NoError]

\* LoadDatabaseConfig with sslMode defaulting to disable.
LoadDatabaseConfigDefaultDisable(penv, file) ==
    LET env == GodotenvLoad(penv, file)
        host == IF Getenv(env, "DB_HOST") = "" THEN DefaultHost
                ELSE Getenv(env, "DB_HOST")
        portStr == IF Getenv(env, "DB_PORT") = <<>> THEN DefaultPortStr
                   ELSE Getenv(env, "DB_PORT")
        port == Atoi(portStr)
        user == Getenv(env, "DB_USER")
        password == Getenv(env, "DB_PASSWORD")
        database == Getenv(env, "DB_NAME")
        sslMode == IF Getenv(env, "DB_SSL_MODE") = "" THEN "disable"
                   ELSE Getenv(env, "DB_SSL_MODE")
    IN  IF ~port.ok THEN [config |-> NilConfig, err |-> "invalid port number"]
        ELSE IF user = ""
            THEN [config |-> NilConfig, err |-> "DB_USER environment variable is required"]
        ELSE IF password = ""
            THEN [config |-> NilConfig, err |-> "DB_PASSWORD environment variable is required"]
        ELSE IF database = ""
            THEN [config |-> NilConfig, err |-> "DB_NAME environment variable is required"]
        ELSE [config |-> DatabaseConfig(host, port.n, user, password, database, sslMode),
              err |-> NoError]

\* LoadDatabaseConfig checking DB_USER before it parses the port.
LoadDatabaseConfigUserFirst(penv, file) ==
    LET env == GodotenvLoad(penv, file)
        host == IF Getenv(env, "DB_HOST") = "" THEN DefaultHost
                ELSE Getenv(env, "DB_HOST")
        portStr == IF Getenv(env, "DB_PORT") = <<>> THEN DefaultPortStr
                   ELSE Getenv(env, "DB_PORT")
        port == Atoi(portStr)
        user == Getenv(env, "DB_USER")
        password == Getenv(env, "DB_PASSWORD")
        database == Getenv(env, "DB_NAME")
        sslMode == IF Getenv(env, "DB_SSL_MODE") = "" THEN DefaultSSLMode
                   ELSE Getenv(env, "DB_SSL_MODE")
    IN  IF user = ""
            THEN [config |-> NilConfig, err |-> "DB_USER environment variable is required"]
        ELSE IF ~port.ok THEN [config |-> NilConfig, err |-> "invalid port number"]
        ELSE IF password = ""
            THEN [config |-> NilConfig, err |-> "DB_PASSWORD environment variable is required"]
        ELSE IF database = ""
            THEN [config |-> NilConfig, err |-> "DB_NAME environment variable is required"]
        ELSE [config |-> DatabaseConfig(host, port.n, user, password, database, sslMode),
              err |-> NoError]

\* LoadDatabaseConfig returning the error of godotenv.Load instead of logging it.
LoadDatabaseConfigEnvFileRequired(penv, file) ==
    LET env == GodotenvLoad(penv, file)
        host == IF Getenv(env, "DB_HOST") = "" THEN DefaultHost
                ELSE Getenv(env, "DB_HOST")
        portStr == IF Getenv(env, "DB_PORT") = <<>> THEN DefaultPortStr
                   ELSE Getenv(env, "DB_PORT")
        port == Atoi(portStr)
        user == Getenv(env, "DB_USER")
        password == Getenv(env, "DB_PASSWORD")
        database == Getenv(env, "DB_NAME")
        sslMode == IF Getenv(env, "DB_SSL_MODE") = "" THEN DefaultSSLMode
                   ELSE Getenv(env, "DB_SSL_MODE")
    IN  IF ~file.found THEN [config |-> NilConfig, err |-> ".env file not found"]
        ELSE IF ~port.ok THEN [config |-> NilConfig, err |-> "invalid port number"]
        ELSE IF user = ""
            THEN [config |-> NilConfig, err |-> "DB_USER environment variable is required"]
        ELSE IF password = ""
            THEN [config |-> NilConfig, err |-> "DB_PASSWORD environment variable is required"]
        ELSE IF database = ""
            THEN [config |-> NilConfig, err |-> "DB_NAME environment variable is required"]
        ELSE [config |-> DatabaseConfig(host, port.n, user, password, database, sslMode),
              err |-> NoError]

\* LoadDatabaseConfig: [config, err]; config is NilConfig exactly when err is
\* not NoError.  `file` is the .env file godotenv.Load finds, or NoFile.
LoadDatabaseConfig(penv, file) ==
    LET env == GodotenvLoad(penv, file)
        host == IF Getenv(env, "DB_HOST") = "" THEN DefaultHost
                ELSE Getenv(env, "DB_HOST")
        portStr == IF Getenv(env, "DB_PORT") = <<>> THEN DefaultPortStr
                   ELSE Getenv(env, "DB_PORT")
        port == Atoi(portStr)
        user == Getenv(env, "DB_USER")
        password == Getenv(env, "DB_PASSWORD")
        database == Getenv(env, "DB_NAME")
        sslMode == IF Getenv(env, "DB_SSL_MODE") = "" THEN DefaultSSLMode
                   ELSE Getenv(env, "DB_SSL_MODE")
    IN  IF ~port.ok THEN [config |-> NilConfig, err |-> "invalid port number"]
        ELSE IF user = ""
            THEN [config |-> NilConfig, err |-> "DB_USER environment variable is required"]
        ELSE IF password = ""
            THEN [config |-> NilConfig, err |-> "DB_PASSWORD environment variable is required"]
        ELSE IF database = ""
            THEN [config |-> NilConfig, err |-> "DB_NAME environment variable is required"]
        ELSE [config |-> DatabaseConfig(host, port.n, user, password, database, sslMode),
              err |-> NoError]

\* --------------------------------------------------- BuildConnectionString
\* fmt's %d: the decimal digits of n, with a leading minus sign when n < 0.
RECURSIVE FormatNat(_)
FormatNat(n) ==
    IF n < 10 THEN DigitChars[n + 1]
    ELSE FormatNat(n \div 10) \o DigitChars[(n % 10) + 1]

FormatInt(n) == IF n < 0 THEN "-" \o FormatNat(0 - n) ELSE FormatNat(n)

\* BuildConnectionString with the user and password arguments swapped.
BuildConnectionStringSwapped(c) ==
    "host=" \o c.Host \o " port=" \o FormatInt(c.Port) \o " user=" \o c.Password
        \o " password=" \o c.User \o " dbname=" \o c.Database
        \o " sslmode=" \o c.SSLMode

BuildConnectionString(c) ==
    "host=" \o c.Host \o " port=" \o FormatInt(c.Port) \o " user=" \o c.User
        \o " password=" \o c.Password \o " dbname=" \o c.Database
        \o " sslmode=" \o c.SSLMode

\* Environments and .env files NewPostgreSQLDriver may run under.
EnvHostVals == {EnvUnset("DB_HOST"), EnvSet("")}
EnvPortVals ==
    {EnvUnset("DB_PORT"), EnvSet(<<"0">>), EnvSet(<<"7", "0", "0", "0", "0">>),
     EnvSet(<<"5", "4", "x">>)}
EnvUserVals == {EnvUnset("DB_USER"), EnvSet("testuser")}
EnvPasswordVals == {EnvUnset("DB_PASSWORD"), EnvSet("testpass")}
EnvNameVals == {EnvUnset("DB_NAME"), EnvSet("testdb")}
EnvSSLModeVals == {EnvUnset("DB_SSL_MODE"), EnvSet("prefer")}

Envs ==
    {[DB_HOST |-> h, DB_PORT |-> p, DB_USER |-> u, DB_PASSWORD |-> pw,
      DB_NAME |-> d, DB_SSL_MODE |-> s] :
        h \in EnvHostVals, p \in EnvPortVals, u \in EnvUserVals,
        pw \in EnvPasswordVals, d \in EnvNameVals, s \in EnvSSLModeVals}

DotEnvFiles ==
    {NoFile,
     [found |-> TRUE,
      vars |-> [NoVars EXCEPT !["DB_USER"] = EnvSet("testuser"),
                              !["DB_PASSWORD"] = EnvSet("testpass"),
                              !["DB_NAME"] = EnvSet("testdb")]]}

\* ------------------------------------------------------------ database/sql
\* A pool as sql.Open returns it: open, no limits set, no connection made.
\* `pinged` records that a Ping inside Connect succeeded on it, `closes`
\* counts the Close calls the manager has issued on it and `callerClosed`
\* records a Close issued on it from outside the manager.
NewHandle(dsn) ==
    [open |-> TRUE, dsn |-> dsn, maxOpen |-> 0, maxIdle |-> 0,
     maxLifetimeMinutes |-> 0, numOpen |-> 0, pinged |-> FALSE, closes |-> 0,
     callerClosed |-> FALSE]

\* sql.Open: a new pool, whose index is the pointer returned.
SqlOpen(hs, dsn) == Append(hs, NewHandle(dsn))

\* The pool configuration without SetMaxOpenConns.
ConfigurePoolNoMaxOpen(hs, h) ==
    [hs EXCEPT ![h].maxIdle = MaxIdleConns,
               ![h].maxLifetimeMinutes = ConnMaxLifetimeMinutes]

\* db.SetMaxOpenConns(25); db.SetMaxIdleConns(5); db.SetConnMaxLifetime(5 min)
ConfigurePool(hs, h) ==
    [hs EXCEPT ![h].maxOpen = MaxOpenConns, ![h].maxIdle = MaxIdleConns,
               ![h].maxLifetimeMinutes = ConnMaxLifetimeMinutes]

\* db.Ping: fails on a closed pool and when the server cannot be reached.
Ping(hs, h, up) == hs[h].open /\ up

\* The pool after a successful Ping inside Connect: one connection is made.
Pinged(hs, h) == [hs EXCEPT ![h].pinged = TRUE, ![h].numOpen = 1]

\* db.Close issued by a caller that holds the pointer: the pool is closed
\* whether or not Close returns an error.
DBClose(hs, h) == [hs EXCEPT ![h].open = FALSE, ![h].numOpen = 0]

\* db.Close issued by the manager itself.
ManagerClose(hs, h) == [DBClose(hs, h) EXCEPT ![h].closes = @ + 1]

\* sql.DBStats{} and db.Stats()
ZeroStats == [MaxOpenConnections |-> 0, OpenConnections |-> 0, InUse |-> 0, Idle |-> 0]

Stats(hs, h) ==
    [MaxOpenConnections |-> hs[h].maxOpen, OpenConnections |-> hs[h].numOpen,
     InUse |-> 0, Idle |-> hs[h].numOpen]

\* ---------------------------------------------------------- PostgreSQLDriver
VARIABLES
    ctor,       \* the constructor that returned the manager, "none" before
    config,     \* d.config, NilConfig while no manager has been returned
    db,         \* d.db
    handles,    \* every pool sql.Open has returned, in order
    reachable,  \* whether the database server answers a ping
    attempts,   \* the configs sql.Open has been called with
    last,       \* the most recent call: [op, err, ret, dbBefore, opened]
    arg,        \* the config passed to the latest constructor call (NilConfig
                \* if it took none) or to validateDatabaseConfig
    res,        \* what validateDatabaseConfig returned for arg, NoRet before
    procs       \* the calls of concurrent callers in progress (SpecConcurrent)

vars == <<ctor, config, db, handles, reachable, attempts, last, arg, res, procs>>

NoRet == "none"

\* The callers of SpecConcurrent; outside a call a caller is idle.
Callers == {1, 2}

IdleCaller ==
    [pc |-> "idle", op |-> "none", loc |-> NilDB, err |-> NoError,
     overlapped |-> FALSE, calls |-> 0]

NoCalls == [p \in Callers |-> IdleCaller]

\* Connect storing the pool in d.db before the ping instead of after it.
ConnectBodyPublishBeforePing(cfg, d, hs, openOk, up) ==
    LET connectionString == BuildConnectionString(cfg)
        h == Len(hs) + 1
        pooled == ConfigurePool(SqlOpen(hs, connectionString), h)
    IN  IF ~openOk
            THEN [db |-> d, handles |-> hs, opened |-> NilDB,
                  err |-> "failed to open database connection"]
        ELSE IF ~Ping(pooled, h, up)
            THEN [db |-> h, handles |-> ManagerClose(pooled, h), opened |-> h,
                  err |-> "failed to ping database"]
        ELSE [db |-> h, handles |-> Pinged(pooled, h), opened |-> h, err |-> NoError]

\* Connect leaving the pool open when the ping fails.
ConnectBodyNoCloseOnPingFailure(cfg, d, hs, openOk, up) ==
    LET connectionString == BuildConnectionString(cfg)
        h == Len(hs) + 1
        pooled == ConfigurePool(SqlOpen(hs, connectionString), h)
    IN  IF ~openOk
            THEN [db |-> d, handles |-> hs, opened |-> NilDB,
                  err |-> "failed to open database connection"]
        ELSE IF ~Ping(pooled, h, up)
            THEN [db |-> d, handles |-> pooled, opened |-> h,
                  err |-> "failed to ping database"]
        ELSE [db |-> h, handles |-> Pinged(pooled, h), opened |-> h, err |-> NoError]

\* The body of Connect on a manager with config cfg and handle field d:
\* the new handle field, the pools, the error returned and the pool opened.
\* openOk is whether sql.Open succeeds, up whether the server answers.
ConnectBody(cfg, d, hs, openOk, up) ==
    LET connectionString == BuildConnectionString(cfg)
        h == Len(hs) + 1
        pooled == ConfigurePool(SqlOpen(hs, connectionString), h)
    IN  IF ~openOk
            THEN [db |-> d, handles |-> hs, opened |-> NilDB,
                  err |-> "failed to open database connection"]
        ELSE IF ~Ping(pooled, h, up)
            THEN [db |-> d, handles |-> ManagerClose(pooled, h), opened |-> h,
                  err |-> "failed to ping database"]
        ELSE [db |-> h, handles |-> Pinged(pooled, h), opened |-> h, err |-> NoError]

\* Reconnect without the close of the held pool.
ReconnectBodyNoClose(cfg, d, hs, openOk, up) == ConnectBody(cfg, d, hs, openOk, up)

\* The body of Reconnect: close the held pool, if any, dropping the error,
\* then Connect.
ReconnectBody(cfg, d, hs, openOk, up) ==
    ConnectBody(cfg, d, IF d # NilDB THEN ManagerClose(hs, d) ELSE hs, openOk, up)

\* Close returning without the call of db.Close.
CloseBodyNoClose(d, hs, closeErr) == [db |-> d, handles |-> hs, err |-> NoError]

\* The body of Close: [handles, db, err].  closeErr is whether db.Close
\* reports an error, which only a pool that is still open can do.
CloseBody(d, hs, closeErr) ==
    IF d # NilDB
        THEN [db |-> d, handles |-> ManagerClose(hs, d),
              err |-> IF closeErr /\ hs[d].open
                      THEN "failed to close database connection" ELSE NoError]
    ELSE [db |-> d, handles |-> hs, err |-> NoError]

\* IsConnected without the ping: a nil check only.
IsConnectedBodyNoPing(d, hs, up) == d # NilDB

\* The body of IsConnected: false without a pool, else whether Ping succeeds.
IsConnectedBody(d, hs, up) == IF d = NilDB THEN FALSE ELSE Ping(hs, d, up)

\* The body of GetConnectionStats.
GetConnectionStatsBody(d, hs) == IF d = NilDB THEN ZeroStats ELSE Stats(hs, d)

\* The record of a call made in the current state: what it returned, the
\* pool it opened, and the handle field and liveness it started from.
Call(op, err, ret, opened) ==
    [op |-> op, err |-> err, ret |-> ret, opened |-> opened, dbBefore |-> db,
     connectedBefore |-> IsConnectedBody(db, handles, reachable)]

Init ==
    /\ ctor = "none"
    /\ config = NilConfig
    /\ db = NilDB
    /\ handles = <<>>
    /\ reachable \in BOOLEAN
    /\ attempts = {}
    /\ last = Call("init", NoError, NoRet, NilDB)
    /\ arg = NilConfig
    /\ res = NoRet
    /\ procs = NoCalls

\* NewPostgreSQLDriver() under environment penv and .env file `file`.  A
\* behaviour makes one constructor call, as its first step.
NewPostgreSQLDriver(penv, file) ==
    LET r == LoadDatabaseConfig(penv, file)
    IN  /\ last.op = "init"
        /\ IF r.err # NoError
              THEN /\ last' = Call("NewPostgreSQLDriver",
                                   "failed to load database configuration",
                                   NilConfig, NilDB)
                   /\ UNCHANGED <<ctor, config>>
              ELSE /\ ctor' = "NewPostgreSQLDriver"
                   /\ config' = r.config
                   /\ last' = Call("NewPostgreSQLDriver", NoError, r.config, NilDB)
        /\ arg' = NilConfig
        /\ UNCHANGED <<db, handles, reachable, attempts, res, procs>>

\* NewPostgreSQLDriverWithConfig without the call of validateDatabaseConfig.
NewPostgreSQLDriverWithConfigUnvalidated(c) ==
    /\ last.op = "init"
    /\ IF c = NilConfig
          THEN /\ last' = Call("NewPostgreSQLDriverWithConfig",
                               "database configuration cannot be nil",
                               NilConfig, NilDB)
               /\ UNCHANGED <<ctor, config>>
       ELSE /\ ctor' = "NewPostgreSQLDriverWithConfig"
            /\ config' = c
            /\ last' = Call("NewPostgreSQLDriverWithConfig", NoError, c, NilDB)
    /\ arg' = c
    /\ UNCHANGED <<db, handles, reachable, attempts, res, procs>>

\* NewPostgreSQLDriverWithConfig(c); c may be NilConfig.
NewPostgreSQLDriverWithConfig(c) ==
    /\ last.op = "init"
    /\ IF c = NilConfig
          THEN /\ last' = Call("NewPostgreSQLDriverWithConfig",
                               "database configuration cannot be nil",
                               NilConfig, NilDB)
               /\ UNCHANGED <<ctor, config>>
       ELSE IF validateDatabaseConfig(c) # NoError
          THEN /\ last' = Call("NewPostgreSQLDriverWithConfig",
                               "invalid database configuration",
                               NilConfig, NilDB)
               /\ UNCHANGED <<ctor, config>>
       ELSE /\ ctor' = "NewPostgreSQLDriverWithConfig"
            /\ config' = c
            /\ last' = Call("NewPostgreSQLDriverWithConfig", NoError, c, NilDB)
    /\ arg' = c
    /\ UNCHANGED <<db, handles, reachable, attempts, res, procs>>

\* Connect(): openOk is whether sql.Open succeeds and up whether the server
\* answers at the time of the ping (it may have changed since the call began).
Connect(openOk, up) ==
    /\ ctor # "none"
    /\ Len(handles) < MaxHandles
    /\ LET r == ConnectBody(config, db, handles, openOk, up)
       IN  /\ db' = r.db
           /\ handles' = r.handles
           /\ last' = Call("Connect", r.err, NoRet, r.opened)
    /\ reachable' = IF openOk THEN up ELSE reachable
    /\ attempts' = attempts \cup {config}
    /\ UNCHANGED <<ctor, config, arg, res, procs>>

\* Reconnect(), with the inputs of Connect.
Reconnect(openOk, up) ==
    /\ ctor # "none"
    /\ Len(handles) < MaxHandles
    /\ db # NilDB => handles[db].closes < MaxCloses
    /\ LET r == ReconnectBody(config, db, handles, openOk, up)
       IN  /\ db' = r.db
           /\ handles' = r.handles
           /\ last' = Call("Reconnect", r.err, NoRet, r.opened)
    /\ reachable' = IF openOk THEN up ELSE reachable
    /\ attempts' = attempts \cup {config}
    /\ UNCHANGED <<ctor, config, arg, res, procs>>

\* Close(): closeErr is whether db.Close reports an error.
Close(closeErr) ==
    /\ ctor # "none"
    /\ db # NilDB => handles[db].closes < MaxCloses
    /\ LET r == CloseBody(db, handles, closeErr)
       IN  /\ db' = r.db
           /\ handles' = r.handles
           /\ last' = Call("Close", r.err, NoRet, NilDB)
    /\ UNCHANGED <<ctor, config, reachable, attempts, arg, res, procs>>

\* IsConnected dropping a pool whose ping fails.
IsConnectedDroppingDeadPool ==
    /\ ctor # "none"
    /\ last' = Call("IsConnected", NoError, IsConnectedBody(db, handles, reachable),
                    NilDB)
    /\ db' = IF IsConnectedBody(db, handles, reachable) THEN db ELSE NilDB
    /\ UNCHANGED <<ctor, config, handles, reachable, attempts, arg, res, procs>>

\* IsConnected()
IsConnected ==
    /\ ctor # "none"
    /\ last' = Call("IsConnected", NoError, IsConnectedBody(db, handles, reachable),
                    NilDB)
    /\ UNCHANGED <<ctor, config, db, handles, reachable, attempts, arg, res, procs>>

GetDB ==
    /\ ctor # "none"
    /\ last' = Call("GetDB", NoError, db, NilDB)
    /\ UNCHANGED <<ctor, config, db, handles, reachable, attempts, arg, res, procs>>

\* GetConfig returning a copy of the config with the password blanked.
GetConfigRedacted ==
    /\ ctor # "none"
    /\ last' = Call("GetConfig", NoError, [config EXCEPT !.Password = ""], NilDB)
    /\ UNCHANGED <<ctor, config, db, handles, reachable, attempts, arg, res, procs>>

\* GetConfig()
GetConfig ==
    /\ ctor # "none"
    /\ last' = Call("GetConfig", NoError, config, NilDB)
    /\ UNCHANGED <<ctor, config, db, handles, reachable, attempts, arg, res, procs>>

GetConnectionStats ==
    /\ ctor # "none"
    /\ last' = Call("GetConnectionStats", NoError,
                    GetConnectionStatsBody(db, handles), NilDB)
    /\ UNCHANGED <<ctor, config, db, handles, reachable, attempts, arg, res, procs>>

\* The caller closes the pool it got from GetDB, as testConnectionRecovery
\* does to simulate a lost connection.
CallerClosesDB ==
    /\ ctor # "none"
    /\ db # NilDB
    /\ handles[db].open
    /\ handles' = [DBClose(handles, db) EXCEPT ![db].callerClosed = TRUE]
    /\ last' = Call("GetDB().Close", NoError, NoRet, NilDB)
    /\ UNCHANGED <<ctor, config, db, reachable, attempts, arg, res, procs>>

\* The database server goes away or comes back.
ServerChange ==
    /\ reachable' = ~reachable
    /\ last' = Call("server", NoError, NoRet, NilDB)
    /\ UNCHANGED <<ctor, config, db, handles, attempts, arg, res, procs>>

Next ==
    \/ \E penv \in Envs, file \in DotEnvFiles : NewPostgreSQLDriver(penv, file)
    \/ \E c \in Configs \cup {NilConfig} : NewPostgreSQLDriverWithConfig(c)
    \/ \E openOk, up \in BOOLEAN : Connect(openOk, up)
    \/ \E openOk, up \in BOOLEAN : Reconnect(openOk, up)
    \/ \E closeErr \in BOOLEAN : Close(closeErr)
    \/ IsConnected
    \/ GetDB
    \/ GetConfig
    \/ GetConnectionStats
    \/ CallerClosesDB
    \/ ServerChange

Spec == Init /\ [][Next]_vars

\* ------------------------------------------------- validateDatabaseConfig alone
\* validateDatabaseConfig applied to every config of Configs.
InitValidate ==
    /\ ctor = "none"
    /\ config = NilConfig
    /\ db = NilDB
    /\ handles = <<>>
    /\ reachable = TRUE
    /\ attempts = {}
    /\ last = Call("init", NoError, NoRet, NilDB)
    /\ arg \in Configs
    /\ res = NoRet
    /\ procs = NoCalls

Validate ==
    /\ res = NoRet
    /\ res' = validateDatabaseConfig(arg)
    /\ UNCHANGED <<ctor, config, db, handles, reachable, attempts, last, arg, procs>>

NextValidate == Validate

SpecValidate == InitValidate /\ [][NextValidate]_vars

\* ----------------------------------------------------- LoadDatabaseConfig alone
\* Environments and .env files LoadDatabaseConfig is applied to.
LoadHostVals == {EnvUnset("DB_HOST"), EnvSet(""), EnvSet("db.internal")}
LoadPortVals ==
    {EnvUnset("DB_PORT"), EnvSet(<<>>), EnvSet(<<"5", "4", "3", "3">>),
     EnvSet(<<"0">>), EnvSet(<<"-", "1">>), EnvSet(<<"+", "8", "0">>),
     EnvSet(<<"5", "4", "x">>), EnvSet(<<"-">>),
     EnvSet(<<"9", "9", "9", "9", "9", "9", "9", "9", "9", "9",
              "9", "9", "9", "9", "9", "9", "9", "9", "9", "9">>)}
LoadUserVals == {EnvUnset("DB_USER"), EnvSet(""), EnvSet("testuser")}
LoadPasswordVals == {EnvUnset("DB_PASSWORD"), EnvSet(""), EnvSet("testpass")}
LoadNameVals == {EnvUnset("DB_NAME"), EnvSet(""), EnvSet("testdb")}
LoadSSLModeVals ==
    {EnvUnset("DB_SSL_MODE"), EnvSet(""), EnvSet("disable"), EnvSet("verify-full"),
     EnvSet("prefer")}

LoadEnvs ==
    {[DB_HOST |-> h, DB_PORT |-> p, DB_USER |-> u, DB_PASSWORD |-> pw,
      DB_NAME |-> d, DB_SSL_MODE |-> s] :
        h \in LoadHostVals, p \in LoadPortVals, u \in LoadUserVals,
        pw \in LoadPasswordVals, d \in LoadNameVals, s \in LoadSSLModeVals}

\* A .env file that is found and holds no assignment.
EmptyFile == [found |-> TRUE, vars |-> NoVars]

LoadFiles ==
    {NoFile, EmptyFile,
     [found |-> TRUE,
      vars |-> [NoVars EXCEPT !["DB_USER"] = EnvSet("fileuser"),
                              !["DB_PASSWORD"] = EnvSet("filepass"),
                              !["DB_NAME"] = EnvSet("filedb")]],
     [found |-> TRUE,
      vars |-> [NoVars EXCEPT !["DB_HOST"] = EnvSet("file.internal"),
                              !["DB_PORT"] = EnvSet(<<"6", "5", "4", "3">>),
                              !["DB_SSL_MODE"] = EnvSet("disable")]]}

InitLoad ==
    /\ ctor = "none"
    /\ config = NilConfig
    /\ db = NilDB
    /\ handles = <<>>
    /\ reachable = TRUE
    /\ attempts = {}
    /\ last = Call("init", NoError, NoRet, NilDB)
    /\ arg \in {[env |-> e, file |-> f] : e \in LoadEnvs, f \in LoadFiles}
    /\ res = NoRet
    /\ procs = NoCalls

\* LoadDatabaseConfig() under environment arg.env and .env file arg.file.
Load ==
    /\ last.op = "init"
    /\ LET r == LoadDatabaseConfig(arg.env, arg.file)
       IN  /\ res' = r
           /\ last' = Call("LoadDatabaseConfig", r.err, r.config, NilDB)
    /\ UNCHANGED <<ctor, config, db, handles, reachable, attempts, arg, procs>>

NextLoad == Load

SpecLoad == InitLoad /\ [][NextLoad]_vars


\* -------------------------------------------------- BuildConnectionString alone
\* Configs BuildConnectionString is applied to, valid or not.
BuildConfigs ==
    {DatabaseConfig(h, p, u, pw, d, s) :
        h \in {"", "localhost", "my host"}, p \in Ports, u \in Users,
        pw \in {"", "testpass", "p'w=d x"}, d \in Databases,
        s \in {"", "require", "prefer"}}

InitBuild ==
    /\ ctor = "none"
    /\ config = NilConfig
    /\ db = NilDB
    /\ handles = <<>>
    /\ reachable = TRUE
    /\ attempts = {}
    /\ last = Call("init", NoError, NoRet, NilDB)
    /\ arg \in BuildConfigs
    /\ res = NoRet
    /\ procs = NoCalls

\* arg.BuildConnectionString()
Build ==
    /\ last.op = "init"
    /\ res' = BuildConnectionString(arg)
    /\ last' = Call("BuildConnectionString", NoError, NoRet, NilDB)
    /\ UNCHANGED <<ctor, config, db, handles, reachable, attempts, arg, procs>>

NextBuild == Build

SpecBuild == InitBuild /\ [][NextBuild]_vars

\* ------------------------------------------- Connect and Reconnect, interleaved
\* Two callers run Connect and Reconnect on one manager without a lock, one
\* statement of the method at a time.  procs[p].pc is the statement caller p
\* is at, loc its local variable db, and overlapped whether another caller
\* was inside a call at any time during the call of p.
TestConfig == DatabaseConfig("localhost", 5432, "testuser", "testpass", "testdb", "disable")

InCall(c) == c.pc \notin {"idle", "done"}

InitConcurrent ==
    /\ ctor = "NewPostgreSQLDriverWithConfig"
    /\ config = TestConfig
    /\ \E connected \in BOOLEAN :
          LET r == ConnectBody(TestConfig, NilDB, <<>>, TRUE, TRUE)
          IN  /\ db = IF connected THEN r.db ELSE NilDB
              /\ handles = IF connected THEN r.handles ELSE <<>>
    /\ reachable \in BOOLEAN
    /\ attempts = {}
    /\ last = [op |-> "init", err |-> NoError, ret |-> NoRet, opened |-> NilDB,
               dbBefore |-> NilDB, connectedBefore |-> FALSE]
    /\ arg = NilConfig
    /\ res = NoRet
    /\ procs = NoCalls

\* Caller p enters op, "Connect" or "Reconnect", at its first statement.  The
\* result a caller that has returned was holding is dropped when another
\* call begins.
Begin(p, op) ==
    /\ ~InCall(procs[p])
    /\ procs[p].calls < MaxCalls
    /\ procs' =
          [q \in Callers |->
              IF q = p
                  THEN [pc |-> IF op = "Reconnect" THEN "check" ELSE "open",
                        op |-> op, loc |-> NilDB, err |-> NoError,
                        overlapped |-> \E o \in Callers \ {p} : InCall(procs[o]),
                        calls |-> procs[p].calls + 1]
              ELSE IF InCall(procs[q]) THEN [procs[q] EXCEPT !.overlapped = TRUE]
              ELSE [IdleCaller EXCEPT !.calls = procs[q].calls]]
    /\ UNCHANGED <<ctor, config, db, handles, reachable, attempts, last, arg, res>>

\* Reconnect: if d.db != nil
ReconnectCheck(p) ==
    /\ procs[p].pc = "check"
    /\ procs' = [procs EXCEPT ![p].pc = IF db # NilDB THEN "close" ELSE "open"]
    /\ UNCHANGED <<ctor, config, db, handles, reachable, attempts, last, arg, res>>

\* Reconnect: d.db.Close(), on the pool d.db holds now, the error dropped.
ReconnectClose(p) ==
    /\ procs[p].pc = "close"
    /\ handles' = ManagerClose(handles, db)
    /\ procs' = [procs EXCEPT ![p].pc = "open"]
    /\ UNCHANGED <<ctor, config, db, reachable, attempts, last, arg, res>>

\* Connect: db, err := sql.Open("postgres", d.config.BuildConnectionString())
ConnectOpen(p, openOk) ==
    /\ procs[p].pc = "open"
    /\ IF openOk
          THEN /\ handles' = SqlOpen(handles, BuildConnectionString(config))
               /\ procs' = [procs EXCEPT ![p].pc = "configure",
                                         ![p].loc = Len(handles) + 1]
          ELSE /\ procs' = [procs EXCEPT ![p].pc = "done",
                               ![p].err = "failed to open database connection"]
               /\ UNCHANGED handles
    /\ attempts' = attempts \cup {config}
    /\ UNCHANGED <<ctor, config, db, reachable, last, arg, res>>

\* Connect: the three pool settings on the local pool.
ConnectConfigure(p) ==
    /\ procs[p].pc = "configure"
    /\ handles' = ConfigurePool(handles, procs[p].loc)
    /\ procs' = [procs EXCEPT ![p].pc = "ping"]
    /\ UNCHANGED <<ctor, config, db, reachable, attempts, last, arg, res>>

\* Connect: db.Ping(), and db.Close() with the error returned if it fails.
ConnectPing(p, up) ==
    /\ procs[p].pc = "ping"
    /\ IF Ping(handles, procs[p].loc, up)
          THEN /\ handles' = Pinged(handles, procs[p].loc)
               /\ procs' = [procs EXCEPT ![p].pc = "publish"]
          ELSE /\ handles' = ManagerClose(handles, procs[p].loc)
               /\ procs' = [procs EXCEPT ![p].pc = "done",
                                         ![p].err = "failed to ping database"]
    /\ reachable' = up
    /\ UNCHANGED <<ctor, config, db, attempts, last, arg, res>>

\* The last statement of Connect without the store to d.db.
ConnectPublishNothing(p) ==
    /\ procs[p].pc = "publish"
    /\ procs' = [procs EXCEPT ![p].pc = "done"]
    /\ UNCHANGED <<ctor, config, db, handles, reachable, attempts, last, arg, res>>

\* Connect: d.db = db; return nil
ConnectPublish(p) ==
    /\ procs[p].pc = "publish"
    /\ db' = procs[p].loc
    /\ procs' = [procs EXCEPT ![p].pc = "done"]
    /\ UNCHANGED <<ctor, config, handles, reachable, attempts, last, arg, res>>

NextConcurrent ==
    \E p \in Callers :
        \/ \E op \in {"Connect", "Reconnect"} : Begin(p, op)
        \/ ReconnectCheck(p)
        \/ ReconnectClose(p)
        \/ \E openOk \in BOOLEAN : ConnectOpen(p, openOk)
        \/ ConnectConfigure(p)
        \/ \E up \in BOOLEAN : ConnectPing(p, up)
        \/ ConnectPublish(p)

SpecConcurrent == InitConcurrent /\ [][NextConcurrent]_vars

\* ==================================================================== claims
\* The DatabaseConfig constraints as the data model states them.
SatisfiesConstraints(c) ==
    /\ c.Host # ""
    /\ c.Port >= 1
    /\ c.Port <= 65535
    /\ c.User # ""
    /\ c.Password # ""
    /\ c.Database # ""
    /\ c.SSLMode \in {"disable", "require", "verify-ca", "verify-full"}

OpenHandles == {h \in 1..Len(handles) : handles[h].open}

\* No Connect, direct or inside Reconnect, has succeeded on the manager.
NeverConnected == \A h \in 1..Len(handles) : ~handles[h].pinged

\* C1: whichever constructor returned the manager, every config that Connect
\* or Reconnect has opened a pool with satisfies all DatabaseConfig
\* constraints.
C1_ValidationGate == \A c \in attempts : SatisfiesConstraints(c)

\* C2: the manager has at most one pool that it opened and that is not closed.
C2_AtMostOneLiveHandle == Cardinality(OpenHandles) <= 1

\* C3: a failed Connect leaves d.db as it was and the pool it opened, if any,
\* closed; a successful Connect leaves d.db the pool it opened, open, with the
\* pool limits set and pinged; and d.db never holds a pool whose ping did not
\* succeed inside Connect.
C3_ConnectAllOrNothing ==
    /\ (last.op = "Connect" /\ last.err # NoError) =>
          /\ db = last.dbBefore
          /\ last.opened # NilDB => ~handles[last.opened].open
    /\ (last.op = "Connect" /\ last.err = NoError) =>
          /\ last.opened # NilDB
          /\ db = last.opened
          /\ handles[db].open
          /\ handles[db].pinged
          /\ handles[db].maxOpen = MaxOpenConns
          /\ handles[db].maxIdle = MaxIdleConns
          /\ handles[db].maxLifetimeMinutes = ConnMaxLifetimeMinutes
    /\ db # NilDB => handles[db].pinged

\* C3 witness: a Connect whose ping failed, on a manager that held a pool.
C3_Witness ==
    /\ last.op = "Connect"
    /\ last.err = "failed to ping database"
    /\ last.opened # NilDB
    /\ last.dbBefore # NilDB

\* C4: after a failed Reconnect on a Connected manager, the manager still
\* holds its previous pool and that pool is still open.
C4_FailedReconnectUnchanged ==
    (last.op = "Reconnect" /\ last.err # NoError /\ last.connectedBefore) =>
        /\ db = last.dbBefore
        /\ handles[db].open

\* C5: after Close on a manager that held a pool, the manager holds none
\* (GetDB returns nil), whether or not the release returned an error.
C5_CloseClearsHandle ==
    (last.op = "Close" /\ last.dbBefore # NilDB) => db = NilDB

\* C6: a Reconnect on a manager that holds a pool succeeds whenever the pool
\* can be opened and the server is reachable; after a successful one d.db is
\* the pool just opened, not the previous one, IsConnected is true, and the
\* previous pool has been closed by the manager.
C6_ReconnectFreshHandle ==
    /\ (last.op = "Reconnect" /\ last.dbBefore # NilDB /\ last.opened # NilDB
            /\ reachable) => last.err = NoError
    /\ (last.op = "Reconnect" /\ last.dbBefore # NilDB /\ last.err = NoError) =>
          /\ db # NilDB
          /\ db = last.opened
          /\ db # last.dbBefore
          /\ handles[db].open
          /\ IsConnectedBody(db, handles, reachable)
          /\ ~handles[last.dbBefore].open
          /\ handles[last.dbBefore].closes >= 1

\* C6 witness: a successful Reconnect from Disconnected, the held pool having
\* been closed by the caller and not by the manager.
C6_Witness ==
    /\ last.op = "Reconnect"
    /\ last.err = NoError
    /\ last.dbBefore # NilDB
    /\ ~last.connectedBefore
    /\ handles[last.dbBefore].callerClosed
    /\ handles[last.dbBefore].closes = 1

\* C7: while the server is reachable IsConnected is true after a successful
\* Connect and after a successful Reconnect, and it is false after a Close on
\* a manager that holds a pool.
C7_IsConnectedLifecycle ==
    /\ (last.op = "Connect" /\ last.err = NoError /\ reachable) =>
          IsConnectedBody(db, handles, reachable)
    /\ (last.op = "Close" /\ last.dbBefore # NilDB) =>
          ~IsConnectedBody(db, handles, reachable)
    /\ (last.op = "Reconnect" /\ last.err = NoError /\ reachable) =>
          IsConnectedBody(db, handles, reachable)
    /\ last.op = "IsConnected" => last.ret = IsConnectedBody(db, handles, reachable)

\* C7 witness: a successful Reconnect that follows a Close of a pool a
\* Connect had succeeded on (the pool was closed by Close, then by Reconnect).
C7_Witness ==
    /\ last.op = "Reconnect"
    /\ last.err = NoError
    /\ reachable
    /\ last.dbBefore # NilDB
    /\ handles[last.dbBefore].pinged
    /\ handles[last.dbBefore].closes = 2

\* C8: while no Connect has succeeded, d.db is nil, so GetDB returns nil,
\* IsConnected false and GetConnectionStats the zero snapshot; Close returns
\* no error and closes nothing (every pool has the one close its failed
\* Connect issued).
C8_NeverConnected ==
    NeverConnected =>
        /\ db = NilDB
        /\ ~IsConnectedBody(db, handles, reachable)
        /\ GetConnectionStatsBody(db, handles) = ZeroStats
        /\ \A h \in 1..Len(handles) : ~handles[h].open /\ handles[h].closes = 1
        /\ last.op = "GetDB" => last.ret = NilDB
        /\ last.op = "IsConnected" => last.ret = FALSE
        /\ last.op = "GetConnectionStats" => last.ret = ZeroStats
        /\ last.op = "Close" => last.err = NoError /\ db = last.dbBefore

\* C8 witness: a Close on a manager whose only Connect attempts failed.
C8_Witness ==
    /\ NeverConnected
    /\ last.op = "Close"
    /\ Len(handles) >= 1

\* C9: NewPostgreSQLDriverWithConfig returns an error and no manager exactly
\* when the config is nil or violates a constraint; otherwise it returns a
\* manager that holds that config, holds no pool and has opened none.
C9_NewWithConfig ==
    last.op = "NewPostgreSQLDriverWithConfig" =>
        IF arg = NilConfig \/ ~SatisfiesConstraints(arg)
        THEN /\ last.err # NoError
             /\ last.ret = NilConfig
             /\ ctor = "none"
             /\ config = NilConfig
        ELSE /\ last.err = NoError
             /\ ctor = "NewPostgreSQLDriverWithConfig"
             /\ config = arg
             /\ db = NilDB
             /\ handles = <<>>
             /\ attempts = {}

\* C9 witness: a manager returned for a valid config.
C9_Witness ==
    /\ last.op = "NewPostgreSQLDriverWithConfig"
    /\ last.err = NoError
    /\ ctor = "NewPostgreSQLDriverWithConfig"
    /\ config # NilConfig

\* C10: validateDatabaseConfig returns nil exactly for the configs that
\* satisfy every constraint, and an error for every other config.
C10_ValidateIff ==
    res # NoRet => (res = NoError <=> SatisfiesConstraints(arg))

\* C10 witness: the largest port accepted.
C10_Witness ==
    /\ res = NoError
    /\ arg.Port = 65535

\* ------------------------------------------------------ claims on the loader
LoadDone == last.op = "LoadDatabaseConfig"

\* The environment LoadDatabaseConfig reads, godotenv.Load having run.
ReadEnv == GodotenvLoad(arg.env, arg.file)

RequiredMissing(env) ==
    \E k \in {"DB_USER", "DB_PASSWORD", "DB_NAME"} : Getenv(env, k) = ""

\* An optional sign followed by one or more decimal digits.
IsNumeral(s) ==
    /\ s # <<>>
    /\ LET body == IF Head(s) \in {"+", "-"} THEN Tail(s) ELSE s
       IN  /\ body # <<>>
           /\ \A i \in 1..Len(body) :
                 body[i] \in {"0", "1", "2", "3", "4", "5", "6", "7", "8", "9"}

\* A numeral whose value fits an int.
IsIntNumeral(s) ==
    /\ IsNumeral(s)
    /\ ~OutOfRange(IF Head(s) \in {"+", "-"} THEN Tail(s) ELSE s, Head(s) = "-")

\* The integer each raw DB_PORT value of LoadPortVals and LoadFiles denotes,
\* "none" for the values that are not an int.
ExpectedPort(s) ==
    CASE s = <<"5", "4", "3", "3">> -> 5433
      [] s = <<"6", "5", "4", "3">> -> 6543
      [] s = <<"0">> -> 0
      [] s = <<"-", "1">> -> -1
      [] s = <<"+", "8", "0">> -> 80
      [] OTHER -> "none"

PortParses(s) ==
    s \in {<<"5", "4", "3", "3">>, <<"6", "5", "4", "3">>, <<"0">>, <<"-", "1">>,
           <<"+", "8", "0">>}

\* C11 (as claimed): with DB_USER, DB_PASSWORD or DB_NAME unset or empty
\* LoadDatabaseConfig returns an error and no config; with all three
\* non-empty and DB_PORT unset or numeric it returns no error.
C11_RequiredFields ==
    LoadDone =>
        /\ RequiredMissing(ReadEnv) => res.err # NoError /\ res.config = NilConfig
        /\ (~RequiredMissing(ReadEnv)
              /\ (~ReadEnv["DB_PORT"].set \/ IsNumeral(Getenv(ReadEnv, "DB_PORT"))))
             => res.err = NoError

\* C11 (amended): as C11, "numeric" being a numeral that fits an int.
C11_RequiredFieldsIntPort ==
    LoadDone =>
        /\ RequiredMissing(ReadEnv) => res.err # NoError /\ res.config = NilConfig
        /\ (~RequiredMissing(ReadEnv)
              /\ (~ReadEnv["DB_PORT"].set \/ IsIntNumeral(Getenv(ReadEnv, "DB_PORT"))))
             => res.err = NoError

\* C11 witness: only DB_PASSWORD is missing, and the port is numeric.
C11_Witness ==
    /\ LoadDone
    /\ Getenv(ReadEnv, "DB_USER") # ""
    /\ Getenv(ReadEnv, "DB_PASSWORD") = ""
    /\ Getenv(ReadEnv, "DB_NAME") # ""
    /\ Getenv(ReadEnv, "DB_PORT") = <<"5", "4", "3", "3">>
    /\ res.err # NoError

\* C12: on success every field is the value of its variable when that is set
\* non-empty (DB_PORT as the integer it denotes) and otherwise the default
\* localhost / 5432 / require, an empty value counting as unset; sslMode is
\* disable only when DB_SSL_MODE is disable.
C12_FieldsAndDefaults ==
    (LoadDone /\ res.err = NoError) =>
        /\ res.config.Host =
              IF Getenv(ReadEnv, "DB_HOST") # "" THEN ReadEnv["DB_HOST"].val
              ELSE "localhost"
        /\ res.config.Port =
              IF Getenv(ReadEnv, "DB_PORT") # <<>>
              THEN ExpectedPort(ReadEnv["DB_PORT"].val) ELSE 5432
        /\ res.config.User = ReadEnv["DB_USER"].val
        /\ res.config.Password = ReadEnv["DB_PASSWORD"].val
        /\ res.config.Database = ReadEnv["DB_NAME"].val
        /\ res.config.SSLMode =
              IF Getenv(ReadEnv, "DB_SSL_MODE") # "" THEN ReadEnv["DB_SSL_MODE"].val
              ELSE "require"
        /\ res.config.SSLMode = "disable" =>
              (ReadEnv["DB_SSL_MODE"].set /\ ReadEnv["DB_SSL_MODE"].val = "disable")

\* C12 witness: only the three required variables are set, DB_HOST and
\* DB_SSL_MODE being set to the empty string, and the defaults are returned.
C12_Witness ==
    /\ LoadDone
    /\ res.err = NoError
    /\ ~arg.file.found
    /\ arg.env["DB_HOST"] = EnvSet("")
    /\ arg.env["DB_SSL_MODE"] = EnvSet("")
    /\ ~arg.env["DB_PORT"].set
    /\ res.config.Host = "localhost"
    /\ res.config.Port = 5432
    /\ res.config.SSLMode = "require"

\* C13: a non-empty DB_PORT that is not an int gives the error 'invalid port
\* number' and no config, whatever the other variables are.
C13_InvalidPortFirst ==
    (LoadDone /\ Getenv(ReadEnv, "DB_PORT") # <<>>
        /\ ~PortParses(Getenv(ReadEnv, "DB_PORT"))) =>
        /\ res.err = "invalid port number"
        /\ res.config = NilConfig

\* C13 witness: a bad port together with a missing DB_USER.
C13_Witness ==
    /\ LoadDone
    /\ Getenv(ReadEnv, "DB_PORT") = <<"5", "4", "x">>
    /\ Getenv(ReadEnv, "DB_USER") = ""
    /\ res.err = "invalid port number"

\* ------------------------------------------- claims on BuildConnectionString
\* The decimal text of each port of Ports.
PortText(p) ==
    CASE p = -1 -> "-1"
      [] p = 0 -> "0"
      [] p = 1 -> "1"
      [] p = 5432 -> "5432"
      [] p = 65535 -> "65535"
      [] p = 65536 -> "65536"

\* C14: for every config BuildConnectionString returns 'host=<host>
\* port=<port> user=<user> password=<password> dbname=<database>
\* sslmode=<sslMode>', the six values verbatim in that order, and for the
\* config of TestBuildConnectionString exactly the string the test expects.
C14_ConnectionStringFormat ==
    last.op = "BuildConnectionString" =>
        /\ res = "host=" \o arg.Host \o " port=" \o PortText(arg.Port)
                   \o " user=" \o arg.User \o " password=" \o arg.Password
                   \o " dbname=" \o arg.Database \o " sslmode=" \o arg.SSLMode
        /\ arg = DatabaseConfig("localhost", 5432, "testuser", "testpass", "testdb",
                                "require")
             => res = "host=localhost port=5432 user=testuser password=testpass dbname=testdb sslmode=require"

\* C14 witness: a config that fails validation is rendered all the same.
C14_Witness ==
    /\ last.op = "BuildConnectionString"
    /\ arg = DatabaseConfig("my host", -1, "testuser", "p'w=d x", "", "prefer")
    /\ res = "host=my host port=-1 user=testuser password=p'w=d x dbname= sslmode=prefer"

\* C15: when godotenv.Load finds no .env file, LoadDatabaseConfig returns
\* what the process environment alone determines: what it returns with an
\* empty .env file, and no error exactly when DB_USER, DB_PASSWORD and
\* DB_NAME are non-empty in the process environment and DB_PORT is unset,
\* empty or an int.
C15_MissingEnvFileNotFatal ==
    (LoadDone /\ ~arg.file.found) =>
        /\ res = LoadDatabaseConfig(arg.env, EmptyFile)
        /\ res.err = NoError <=>
              /\ ~RequiredMissing(arg.env)
              /\ \/ Getenv(arg.env, "DB_PORT") = <<>>
                 \/ PortParses(Getenv(arg.env, "DB_PORT"))

\* C15 witness: a successful load without a .env file.
C15_Witness ==
    /\ LoadDone
    /\ ~arg.file.found
    /\ res.err = NoError
    /\ res.config.User = "testuser"

\* C16: every config LoadDatabaseConfig returns without error passes
\* validateDatabaseConfig.
C16_LoadedConfigIsValid ==
    (LoadDone /\ res.err = NoError) => validateDatabaseConfig(res.config) = NoError

\* The callers that have returned from a call.
Returned == {p \in Callers : procs[p].pc = "done"}

\* The pools a successful Connect made and that nothing has closed.
LivePools == {h \in 1..Len(handles) : handles[h].open /\ handles[h].pinged}

\* C17: a Reconnect that no other call overlapped and that returned no error
\* has left d.db the pool it opened, open and pinged.  (That overlapping
\* calls can end with a live pool the manager does not hold is C17_Witness.)
C17_SerializedReconnect ==
    \A p \in Returned :
        (procs[p].op = "Reconnect" /\ ~procs[p].overlapped /\ procs[p].err = NoError) =>
            /\ db = procs[p].loc
            /\ db \in LivePools

\* C17 witness: both callers have returned from overlapping calls without
\* error, and a pool one of them opened is live and is not the one d.db holds.
C17_Witness ==
    /\ Returned = Callers
    /\ \A p \in Callers : procs[p].overlapped /\ procs[p].err = NoError
    /\ \E p \in Callers : procs[p].loc # db /\ procs[p].loc \in LivePools

\* The three pool limits Connect sets.
HasPoolLimits(h) ==
    /\ h.maxOpen = MaxOpenConns
    /\ h.maxIdle = MaxIdleConns
    /\ h.maxLifetimeMinutes = ConnMaxLifetimeMinutes

\* C18: the pool a caller of Connect is about to ping or to store in d.db
\* has the three pool limits set, as has every pool a ping has succeeded on;
\* so the pool d.db holds has max-open 25, max-idle 5 and lifetime 5 minutes,
\* and GetConnectionStats reports MaxOpenConnections = 25 for it.
C18_PoolLimitsBeforePing ==
    /\ \A p \in Callers :
          procs[p].pc \in {"ping", "publish"} => HasPoolLimits(handles[procs[p].loc])
    /\ \A h \in 1..Len(handles) : handles[h].pinged => HasPoolLimits(handles[h])
    /\ db # NilDB =>
          /\ HasPoolLimits(handles[db])
          /\ GetConnectionStatsBody(db, handles).MaxOpenConnections = 25

\* C18 witness: a Connect has returned nil, d.db is the pool it opened and
\* the statistics of that pool report the ceiling.
C18_Witness ==
    \E p \in Returned :
        /\ procs[p].op = "Connect"
        /\ procs[p].err = NoError
        /\ db = procs[p].loc
        /\ GetConnectionStatsBody(db, handles).MaxOpenConnections = MaxOpenConns
        /\ GetConnectionStatsBody(db, handles).OpenConnections = 1

\* C19: a call of IsConnected leaves d.db, d.config and every pool as they
\* were, opens no pool, and returns true exactly when d.db holds a pool that
\* is not closed and the server answers the ping.
C19_IsConnectedPureQuery ==
    [][last'.op = "IsConnected" =>
          /\ db' = db
          /\ config' = config
          /\ handles' = handles
          /\ last'.ret = (IF db = NilDB THEN FALSE ELSE handles[db].open /\ reachable)]_vars

\* C19 witness: IsConnected has returned false on a manager whose pool a
\* caller closed, and the manager still holds that pool.
C19_Witness ==
    /\ last.op = "IsConnected"
    /\ last.ret = FALSE
    /\ db # NilDB
    /\ db = last.dbBefore
    /\ handles[db].callerClosed
    /\ reachable

\* C20: a call of Connect opens at most one pool and returns an error when
\* the open or the ping fails, leaving d.db as it was; whatever calls failed
\* before it, a Connect whose open succeeds while the server answers returns
\* nil and leaves the manager holding the live pool it opened; and after
\* every step each pool on which no ping succeeded is closed.
C20_NoRetryNotSticky ==
    [][/\ \A h \in 1..Len(handles') : ~handles'[h].pinged => ~handles'[h].open
       /\ (last'.op = "Connect" /\ last' # last) =>
             /\ Len(handles') <= Len(handles) + 1
             /\ last'.opened = NilDB => (last'.err # NoError /\ handles' = handles)
             /\ (last'.opened # NilDB /\ ~reachable') =>
                   /\ last'.err # NoError
                   /\ handles'[last'.opened].closes = 1
             /\ last'.err # NoError => db' = db
             /\ (last'.opened # NilDB /\ reachable') =>
                   /\ last'.err = NoError
                   /\ db' = last'.opened
                   /\ IsConnectedBody(db', handles', reachable')]_vars

\* C20 witness: a Connect has succeeded after a Connect whose ping failed,
\* and the pool of the failed call is closed.
C20_Witness ==
    /\ last.op = "Connect"
    /\ last.err = NoError
    /\ Len(handles) = 2
    /\ db = 2
    /\ ~handles[1].pinged
    /\ ~handles[1].open
    /\ handles[1].closes = 1

\* C21: a Connect made right after a Close of a Connected manager, whose open
\* succeeds while the server answers, returns nil and leaves d.db a new pool,
\* open and answering, which is not the pool Close closed; and a pool that
\* is closed is closed after every step.
C21_ConnectAfterClose ==
    [][/\ \A h \in 1..Len(handles) : ~handles[h].open => ~handles'[h].open
       /\ (/\ last.op = "Close"
           /\ last.connectedBefore
           /\ last'.op = "Connect"
           /\ last'.opened # NilDB
           /\ reachable') =>
             /\ last'.err = NoError
             /\ db' = last'.opened
             /\ db' # db
             /\ db' \notin 1..Len(handles)
             /\ ~handles[db].open
             /\ ~handles'[db].open
             /\ IsConnectedBody(db', handles', reachable')]_vars

\* C21 witness: Connect has succeeded on a manager that held a pool Close
\* had closed; the manager holds the new pool and the old one is closed.
C21_Witness ==
    /\ last.op = "Connect"
    /\ last.err = NoError
    /\ ~last.connectedBefore
    /\ last.dbBefore = 1
    /\ handles[1].pinged
    /\ handles[1].closes = 1
    /\ ~handles[1].callerClosed
    /\ ~handles[1].open
    /\ db = 2
    /\ IsConnectedBody(db, handles, reachable)

\* C22: no step of a constructed manager changes d.config; GetConfig returns
\* d.config; and the config of a manager NewPostgreSQLDriverWithConfig
\* returned is, field by field, the config it was given.
C22_ConfigNeverChanges ==
    [][ctor # "none" =>
          /\ config' = config
          /\ ctor' = ctor
          /\ last'.op = "GetConfig" => last'.ret = config
          /\ ctor = "NewPostgreSQLDriverWithConfig" =>
                /\ config'.Host = arg.Host
                /\ config'.Port = arg.Port
                /\ config'.User = arg.User
                /\ config'.Password = arg.Password
                /\ config'.Database = arg.Database
                /\ config'.SSLMode = arg.SSLMode]_vars

\* C22 witness: GetConfig has returned the constructor's config after a
\* successful Connect, a failed one and a Close.
C22_Witness ==
    /\ last.op = "GetConfig"
    /\ last.ret = arg
    /\ Len(handles) = 2
    /\ handles[1].pinged
    /\ handles[1].closes = 1
    /\ ~handles[2].pinged

\* C23: the manager has issued at most one Close on each pool.
C23_ReleasedAtMostOnce == \A h \in 1..Len(handles) : handles[h].closes <= 1

====
